---- MODULE Spec2Model ----
(***************************************************************************)
(* Candlestick pattern classification of sangaw/candle-pattern-test:       *)
(* src/src/utils.py (predicate library) and                                *)
(* src/src/candlestick_patterns.py (CandlestickPatternAnalyzer).           *)
(*                                                                         *)
(* Prices are integers (ticks).  A percentage computed by the code as the  *)
(* float (x / total_range) * 100 is kept as the exact fraction             *)
(* [num |-> 100 * x, den |-> total_range]; a threshold such as 0.1 is the  *)
(* fraction [num |-> 1, den |-> 10].  On integer prices the float          *)
(* comparisons of the code against 0.1, 30.0 and 60.0 agree with the exact *)
(* ones (verified for every body and range up to 2000 ticks).              *)
(*                                                                         *)
(* A DataFrame is [index, col]: the sequence of row labels and, for each   *)
(* column name, the sequence of the column's values.  Positions of the     *)
(* code (iloc) are 0-based; sequences here are 1-based, so position i of   *)
(* the code is element i + 1.                                              *)
(***************************************************************************)
EXTENDS Integers, Sequences, FiniteSets, TLC

\* ------------------------------------------------------------------------
\* Bounds of the model
\* ------------------------------------------------------------------------
MaxLen == 3        \* longest series of the coarse grid
MaxPrice == 3      \* open and close of the coarse grid are 0..MaxPrice
WidePrice == 1000  \* high of the wide-range candles of the coarse grid
MaxTick == 10      \* every price of the fine grid is 0..MaxTick
MaxCalls == 3      \* most calls of analyze_patterns on one analyzer
MaxLog == 3        \* most records in the log when a query may add one
MaxTime == 3       \* modification times of the files of a directory: 1..MaxTime

\* ------------------------------------------------------------------------
\* Program constants: default thresholds of the predicate library
\* ------------------------------------------------------------------------
DojiTolerance == [num |-> 1, den |-> 10]
BodyThreshold == 30
ShadowThreshold == 60

\* data: the table the caller holds and passes to analyze_patterns
\* result: the table analyze_patterns returned
\* patterns: the analyzer's self.patterns
\* log: the records the call logged
\* pc: "idle" before the call, "returned" after it
\* calls: the earlier calls on this analyzer, each the table passed and the
\*        table returned, as the caller kept them
\* query: the last call of get_pattern_summary or get_pattern_dates on the
\*        returned table: the method, its pattern_name, what it returned
\*        and the exception it raised
\* files: the file system, the file at each path that exists
\* outcome: the call of process_csv_file made: its arguments, the path it
\*        returned and the exception it raised to the caller
\* mtime: the modification time of each file that exists
\* predicate: the call of is_hammer and is_shooting_star made on a record
\*        outside the analyzer: its thresholds and what the two returned
\* loop_i: the loop variable i of the loop the analyzer is in, when
\*        analyze_patterns is followed iteration by iteration
VARIABLES data, result, patterns, log, pc, calls, query, files, outcome,
          mtime, predicate, loop_i

vars ==
    <<data, result, patterns, log, pc, calls, query, files, outcome,
      mtime, predicate, loop_i>>

\* ------------------------------------------------------------------------
\* Arithmetic helpers
\* ------------------------------------------------------------------------
Abs(x) == IF x < 0 THEN -x ELSE x
Max(a, b) == IF a >= b THEN a ELSE b
Min(a, b) == IF a <= b THEN a ELSE b

\* a float percentage (x / total_range) * 100 as an exact fraction
Pct(x, total) == [num |-> 100 * x, den |-> total]
ZeroPct == [num |-> 0, den |-> 1]
WholePct(t) == [num |-> t, den |-> 1]
PctLeq(p, q) == p.num * q.den <= q.num * p.den
PctGeq(p, q) == p.num * q.den >= q.num * p.den

\* ------------------------------------------------------------------------
\* src/src/utils.py
\* ------------------------------------------------------------------------
calculate_body_size(open_price, close_price) == Abs(close_price - open_price)

\* variant of calculate_shadow_size: the upper shadow is measured from the
\* lower end of the body
calculate_shadow_size_FromBodyLow(high, low, open_price, close_price) ==
    LET body_high == Max(open_price, close_price)
        body_low == Min(open_price, close_price)
    IN  [upper |-> high - body_low, lower |-> body_low - low]

calculate_shadow_size(high, low, open_price, close_price) ==
    LET body_high == Max(open_price, close_price)
        body_low == Min(open_price, close_price)
    IN  [upper |-> high - body_high, lower |-> body_low - low]

\* variant of is_bullish: ">=" for ">"
is_bullish_OrEqual(open_price, close_price) == close_price >= open_price

is_bullish(open_price, close_price) == close_price > open_price

is_bearish(open_price, close_price) == close_price < open_price

\* variant of calculate_body_percentage: without the "total_range == 0"
\* return, so a flat candle divides by zero (the fraction has den 0)
calculate_body_percentage_NoGuard(open_price, close_price, high, low) ==
    LET body_size == calculate_body_size(open_price, close_price)
        total_range == high - low
    IN  Pct(body_size, total_range)

calculate_body_percentage(open_price, close_price, high, low) ==
    LET body_size == calculate_body_size(open_price, close_price)
        total_range == high - low
    IN  IF total_range = 0 THEN ZeroPct ELSE Pct(body_size, total_range)

\* variant of calculate_shadow_percentages: the lower percentage is computed
\* from upper_shadow
calculate_shadow_percentages_SameShadow(high, low, open_price, close_price) ==
    LET sh == calculate_shadow_size(high, low, open_price, close_price)
        total_range == high - low
    IN  IF total_range = 0
        THEN [upper |-> ZeroPct, lower |-> ZeroPct]
        ELSE [upper |-> Pct(sh.upper, total_range),
              lower |-> Pct(sh.upper, total_range)]

calculate_shadow_percentages(high, low, open_price, close_price) ==
    LET sh == calculate_shadow_size(high, low, open_price, close_price)
        total_range == high - low
    IN  IF total_range = 0
        THEN [upper |-> ZeroPct, lower |-> ZeroPct]
        ELSE [upper |-> Pct(sh.upper, total_range),
              lower |-> Pct(sh.lower, total_range)]

is_doji(open_price, close_price, tolerance) ==
    LET body_size == calculate_body_size(open_price, close_price)
        total_range == Max(open_price, close_price) - Min(open_price, close_price)
    IN  IF total_range = 0
        THEN TRUE
        ELSE PctLeq(Pct(body_size, total_range), tolerance)

\* variant of is_hammer: lower_shadow_pct > shadow_threshold
is_hammer_StrictShadow(open_price, close_price, high, low, body_threshold, shadow_threshold) ==
    LET body_pct == calculate_body_percentage(open_price, close_price, high, low)
        lower_shadow_pct ==
            calculate_shadow_percentages(high, low, open_price, close_price).lower
    IN  /\ PctLeq(body_pct, WholePct(body_threshold))
        /\ ~PctLeq(lower_shadow_pct, WholePct(shadow_threshold))

is_hammer(open_price, close_price, high, low, body_threshold, shadow_threshold) ==
    LET body_pct == calculate_body_percentage(open_price, close_price, high, low)
        lower_shadow_pct ==
            calculate_shadow_percentages(high, low, open_price, close_price).lower
    IN  /\ PctLeq(body_pct, WholePct(body_threshold))
        /\ PctGeq(lower_shadow_pct, WholePct(shadow_threshold))

\* variant of is_shooting_star: the upper shadow is measured from the open
is_shooting_star_FromOpen(open_price, close_price, high, low, body_threshold, shadow_threshold) ==
    LET body_pct == calculate_body_percentage(open_price, close_price, high, low)
        total_range == high - low
        upper_shadow_pct ==
            IF total_range = 0 THEN ZeroPct ELSE Pct(high - open_price, total_range)
    IN  /\ PctLeq(body_pct, WholePct(body_threshold))
        /\ PctGeq(upper_shadow_pct, WholePct(shadow_threshold))

is_shooting_star(open_price, close_price, high, low, body_threshold, shadow_threshold) ==
    LET body_pct == calculate_body_percentage(open_price, close_price, high, low)
        upper_shadow_pct ==
            calculate_shadow_percentages(high, low, open_price, close_price).upper
    IN  /\ PctLeq(body_pct, WholePct(body_threshold))
        /\ PctGeq(upper_shadow_pct, WholePct(shadow_threshold))

OhlcColumns == {"Open", "High", "Low", "Close"}

RowConsistent(row) ==
    /\ row["Low"] <= row["Open"] /\ row["Open"] <= row["High"]
    /\ row["Low"] <= row["Close"] /\ row["Close"] <= row["High"]

\* ------------------------------------------------------------------------
\* pandas operations the code uses
\* ------------------------------------------------------------------------
\* df.columns and len(df)
Columns(df) == DOMAIN df.col
Length(df) == Len(df.index)

\* DataFrame.empty: an axis of length 0
Empty(df) == Length(df) = 0 \/ Columns(df) = {}

\* df[col] = value: the column is created, or overwritten, in every row
SetColumn(df, col, value) ==
    [df EXCEPT !.col = (col :> [p \in 1..Length(df) |-> value]) @@ df.col]

\* df.at[idx, col] = value: label-based, writes every row labelled idx
At(df, idx, col, value) ==
    [df EXCEPT
        !.col[col] = [p \in 1..Length(df) |->
                        IF df.index[p] = idx THEN value ELSE @[p]]]

\* df.iloc[lo:hi]: the rows at positions lo..hi-1, with their row labels
IlocSlice(df, lo, hi) ==
    [index |-> [p \in 1..(hi - lo) |-> df.index[lo + p]],
     col |-> [c \in Columns(df) |-> [p \in 1..(hi - lo) |-> df.col[c][lo + p]]]]

\* df.iloc[i]: the row at 0-based position i
Iloc(df, i) == [c \in Columns(df) |-> df.col[c][i + 1]]

\* variant of validate_ohlc_data: only the open is checked against low, high
validate_ohlc_data_OpenOnly(df) ==
    /\ OhlcColumns \subseteq Columns(df)
    /\ \A i \in 0..(Length(df) - 1) :
          /\ Iloc(df, i)["Low"] <= Iloc(df, i)["Open"]
          /\ Iloc(df, i)["Open"] <= Iloc(df, i)["High"]

\* variant of validate_ohlc_data: the loop returns True after its first row
validate_ohlc_data_FirstRow(df) ==
    /\ OhlcColumns \subseteq Columns(df)
    /\ Length(df) > 0 => RowConsistent(Iloc(df, 0))

\* src/src/utils.py, validate_ohlc_data
validate_ohlc_data(df) ==
    /\ OhlcColumns \subseteq Columns(df)
    /\ \A i \in 0..(Length(df) - 1) : RowConsistent(Iloc(df, i))

\* ------------------------------------------------------------------------
\* src/src/candlestick_patterns.py
\* ------------------------------------------------------------------------
SingleCandleColumns ==
    {"is_doji", "is_hammer", "is_shooting_star", "is_bullish", "is_bearish"}

MultiCandleColumns ==
    {"is_bullish_engulfing", "is_bearish_engulfing",
     "is_morning_star", "is_evening_star"}

PatternColumns == SingleCandleColumns \cup MultiCandleColumns

\* one iteration of "for idx, row in data.iterrows()" at 0-based position i
SingleCandleStep(df, i) ==
    LET idx == df.index[i + 1]
        row == Iloc(df, i)
        open_price == row["Open"]
        high == row["High"]
        low == row["Low"]
        close_price == row["Close"]
        d1 == At(df, idx, "is_bullish", is_bullish(open_price, close_price))
        d2 == At(d1, idx, "is_bearish", is_bearish(open_price, close_price))
        d3 == At(d2, idx, "is_doji", is_doji(open_price, close_price, DojiTolerance))
        d4 == At(d3, idx, "is_hammer",
                 is_hammer(open_price, close_price, high, low,
                           BodyThreshold, ShadowThreshold))
    IN  At(d4, idx, "is_shooting_star",
           is_shooting_star(open_price, close_price, high, low,
                            BodyThreshold, ShadowThreshold))

RECURSIVE SingleCandleLoop(_, _)
SingleCandleLoop(df, i) ==
    IF i >= Length(df) THEN df
    ELSE SingleCandleLoop(SingleCandleStep(df, i), i + 1)

analyze_single_candle_patterns(df) ==
    LET d1 == SetColumn(df, "is_doji", FALSE)
        d2 == SetColumn(d1, "is_hammer", FALSE)
        d3 == SetColumn(d2, "is_shooting_star", FALSE)
        d4 == SetColumn(d3, "is_bullish", FALSE)
        d5 == SetColumn(d4, "is_bearish", FALSE)
    IN  SingleCandleLoop(d5, 0)

is_bullish_engulfing(prev_candle, curr_candle) ==
    IF ~is_bearish(prev_candle["Open"], prev_candle["Close"]) THEN FALSE
    ELSE IF ~is_bullish(curr_candle["Open"], curr_candle["Close"]) THEN FALSE
    ELSE LET curr_open == curr_candle["Open"]
             curr_close == curr_candle["Close"]
             prev_open == prev_candle["Open"]
             prev_close == prev_candle["Close"]
         IN  curr_open < prev_close /\ curr_close > prev_open

is_bearish_engulfing(prev_candle, curr_candle) ==
    IF ~is_bullish(prev_candle["Open"], prev_candle["Close"]) THEN FALSE
    ELSE IF ~is_bearish(curr_candle["Open"], curr_candle["Close"]) THEN FALSE
    ELSE LET curr_open == curr_candle["Open"]
             curr_close == curr_candle["Close"]
             prev_open == prev_candle["Open"]
             prev_close == prev_candle["Close"]
         IN  curr_open > prev_close /\ curr_close < prev_open

is_morning_star(first_candle, second_candle, third_candle) ==
    IF ~is_bearish(first_candle["Open"], first_candle["Close"]) THEN FALSE
    ELSE IF ~is_doji(second_candle["Open"], second_candle["Close"], DojiTolerance)
    THEN FALSE
    ELSE IF ~is_bullish(third_candle["Open"], third_candle["Close"]) THEN FALSE
    ELSE LET first_close == first_candle["Close"]
             second_open == second_candle["Open"]
             second_close == second_candle["Close"]
             third_open == third_candle["Open"]
             gap_down == second_open < first_close
             gap_up == third_open > second_close
         IN  gap_down /\ gap_up

is_evening_star(first_candle, second_candle, third_candle) ==
    IF ~is_bullish(first_candle["Open"], first_candle["Close"]) THEN FALSE
    ELSE IF ~is_doji(second_candle["Open"], second_candle["Close"], DojiTolerance)
    THEN FALSE
    ELSE IF ~is_bearish(third_candle["Open"], third_candle["Close"]) THEN FALSE
    ELSE LET first_close == first_candle["Close"]
             second_open == second_candle["Open"]
             second_close == second_candle["Close"]
             third_open == third_candle["Open"]
             gap_up == second_open > first_close
             gap_down == third_open < second_close
         IN  gap_up /\ gap_down

\* variant of EngulfingStep: the label is written on the engulfed record
EngulfingStep_OnPrev(df, i) ==
    LET d1 == IF is_bullish_engulfing(Iloc(df, i - 1), Iloc(df, i))
              THEN At(df, df.index[i], "is_bullish_engulfing", TRUE)
              ELSE df
    IN  IF is_bearish_engulfing(Iloc(d1, i - 1), Iloc(d1, i))
        THEN At(d1, d1.index[i], "is_bearish_engulfing", TRUE)
        ELSE d1

\* one iteration of "for i in range(1, len(data))"
EngulfingStep(df, i) ==
    LET d1 == IF is_bullish_engulfing(Iloc(df, i - 1), Iloc(df, i))
              THEN At(df, df.index[i + 1], "is_bullish_engulfing", TRUE)
              ELSE df
    IN  IF is_bearish_engulfing(Iloc(d1, i - 1), Iloc(d1, i))
        THEN At(d1, d1.index[i + 1], "is_bearish_engulfing", TRUE)
        ELSE d1

RECURSIVE EngulfingLoop(_, _)
EngulfingLoop(df, i) ==
    IF i >= Length(df) THEN df
    ELSE EngulfingLoop(EngulfingStep(df, i), i + 1)

\* variant of StarStep: the first candle of the triple is data.iloc[0]
StarStep_FromFirst(df, i) ==
    LET d1 == IF is_morning_star(Iloc(df, 0), Iloc(df, i - 1), Iloc(df, i))
              THEN At(df, df.index[i + 1], "is_morning_star", TRUE)
              ELSE df
    IN  IF is_evening_star(Iloc(d1, 0), Iloc(d1, i - 1), Iloc(d1, i))
        THEN At(d1, d1.index[i + 1], "is_evening_star", TRUE)
        ELSE d1

\* variant of StarStep: the label is written on the middle record
StarStep_OnMiddle(df, i) ==
    LET d1 == IF is_morning_star(Iloc(df, i - 2), Iloc(df, i - 1), Iloc(df, i))
              THEN At(df, df.index[i], "is_morning_star", TRUE)
              ELSE df
    IN  IF is_evening_star(Iloc(d1, i - 2), Iloc(d1, i - 1), Iloc(d1, i))
        THEN At(d1, d1.index[i], "is_evening_star", TRUE)
        ELSE d1

\* one iteration of "for i in range(2, len(data))"
StarStep(df, i) ==
    LET d1 == IF is_morning_star(Iloc(df, i - 2), Iloc(df, i - 1), Iloc(df, i))
              THEN At(df, df.index[i + 1], "is_morning_star", TRUE)
              ELSE df
    IN  IF is_evening_star(Iloc(d1, i - 2), Iloc(d1, i - 1), Iloc(d1, i))
        THEN At(d1, d1.index[i + 1], "is_evening_star", TRUE)
        ELSE d1

RECURSIVE StarLoop(_, _)
StarLoop(df, i) ==
    IF i >= Length(df) THEN df
    ELSE StarLoop(StarStep(df, i), i + 1)

\* variant of analyze_multi_candle_patterns: the "len(data) < 2" return
\* comes before the columns are initialised
analyze_multi_candle_patterns_ReturnFirst(df) ==
    IF Length(df) < 2 THEN df
    ELSE LET d1 == SetColumn(df, "is_bullish_engulfing", FALSE)
             d2 == SetColumn(d1, "is_bearish_engulfing", FALSE)
             d3 == SetColumn(d2, "is_morning_star", FALSE)
             d4 == SetColumn(d3, "is_evening_star", FALSE)
         IN  IF Length(d4) < 3 THEN d4
             ELSE StarLoop(EngulfingLoop(d4, 1), 2)

analyze_multi_candle_patterns(df) ==
    LET d1 == SetColumn(df, "is_bullish_engulfing", FALSE)
        d2 == SetColumn(d1, "is_bearish_engulfing", FALSE)
        d3 == SetColumn(d2, "is_morning_star", FALSE)
        d4 == SetColumn(d3, "is_evening_star", FALSE)
    IN  IF Length(d4) < 2 THEN d4
        ELSE IF Length(d4) < 3 THEN d4
        ELSE StarLoop(EngulfingLoop(d4, 1), 2)

\* variant of analyze_patterns: the analyzer remembers that a call was
\* accepted and validates no later table
analyze_patterns_ValidatedOnce(df) ==
    IF Empty(df)
    THEN [data |-> df, ret |-> df,
          log |-> <<"Empty data provided for pattern analysis">>]
    ELSE IF ~(\/ validate_ohlc_data(df)
              \/ \E k \in 1..Len(calls) : PatternColumns \subseteq Columns(calls[k].ret))
    THEN [data |-> df, ret |-> df,
          log |-> <<IF OhlcColumns \subseteq Columns(df)
                    THEN "Invalid OHLC data"
                    ELSE "Missing required OHLC columns",
                    "Invalid OHLC data provided">>]
    ELSE LET copy == df
             single == analyze_single_candle_patterns(copy)
             multi == analyze_multi_candle_patterns(single)
         IN  [data |-> df, ret |-> multi,
              log |-> <<"Pattern analysis completed">>]

\* variant of analyze_patterns: without the "if data.empty" return
analyze_patterns_NoEmptyCheck(df) ==
    IF ~validate_ohlc_data(df)
    THEN [data |-> df, ret |-> df,
          log |-> <<IF OhlcColumns \subseteq Columns(df)
                    THEN "Invalid OHLC data"
                    ELSE "Missing required OHLC columns",
                    "Invalid OHLC data provided">>]
    ELSE LET copy == df
             single == analyze_single_candle_patterns(copy)
             multi == analyze_multi_candle_patterns(single)
         IN  [data |-> df, ret |-> multi,
              log |-> <<"Pattern analysis completed">>]

\* variant of analyze_patterns: "result = data" without .copy(), so the
\* pattern columns are written into the caller's table
analyze_patterns_NoCopy(df) ==
    IF Empty(df)
    THEN [data |-> df, ret |-> df,
          log |-> <<"Empty data provided for pattern analysis">>]
    ELSE IF ~validate_ohlc_data(df)
    THEN [data |-> df, ret |-> df,
          log |-> <<IF OhlcColumns \subseteq Columns(df)
                    THEN "Invalid OHLC data"
                    ELSE "Missing required OHLC columns",
                    "Invalid OHLC data provided">>]
    ELSE LET single == analyze_single_candle_patterns(df)
             multi == analyze_multi_candle_patterns(single)
         IN  [data |-> multi, ret |-> multi,
              log |-> <<"Pattern analysis completed">>]

\* variant of analyze_patterns: the copy is made and the single-candle
\* columns are set to False before the table is validated
analyze_patterns_ColumnsFirst(df) ==
    IF Empty(df)
    THEN [data |-> df, ret |-> df,
          log |-> <<"Empty data provided for pattern analysis">>]
    ELSE LET d1 == SetColumn(df, "is_doji", FALSE)
             d2 == SetColumn(d1, "is_hammer", FALSE)
             d3 == SetColumn(d2, "is_shooting_star", FALSE)
             d4 == SetColumn(d3, "is_bullish", FALSE)
             d5 == SetColumn(d4, "is_bearish", FALSE)
         IN  IF ~validate_ohlc_data(df)
             THEN [data |-> df, ret |-> d5,
                   log |-> <<IF OhlcColumns \subseteq Columns(df)
                             THEN "Invalid OHLC data"
                             ELSE "Missing required OHLC columns",
                             "Invalid OHLC data provided">>]
             ELSE LET multi ==
                          analyze_multi_candle_patterns(SingleCandleLoop(d5, 0))
                  IN  [data |-> df, ret |-> multi,
                       log |-> <<"Pattern analysis completed">>]

\* analyze_patterns(data): the table the caller passed as it is after the
\* call, the table returned, and the records logged
analyze_patterns(df) ==
    IF Empty(df)
    THEN [data |-> df, ret |-> df,
          log |-> <<"Empty data provided for pattern analysis">>]
    ELSE IF ~validate_ohlc_data(df)
    THEN [data |-> df, ret |-> df,
          log |-> <<IF OhlcColumns \subseteq Columns(df)
                    THEN "Invalid OHLC data"
                    ELSE "Missing required OHLC columns",
                    "Invalid OHLC data provided">>]
    ELSE LET copy == df
             single == analyze_single_candle_patterns(copy)
             multi == analyze_multi_candle_patterns(single)
         IN  [data |-> df, ret |-> multi,
              log |-> <<"Pattern analysis completed">>]

\* the columns get_pattern_summary counts
SummaryColumns ==
    {"is_doji", "is_hammer", "is_shooting_star", "is_bullish_engulfing",
     "is_bearish_engulfing", "is_morning_star", "is_evening_star"}

\* variant of get_pattern_summary: data[col].count() for data[col].sum()
get_pattern_summary_Count(df) ==
    [c \in SummaryColumns \cap Columns(df) |-> Length(df)]

\* get_pattern_summary(data): the dict it returns, as a function of the
\* columns it has an entry for; data[col].sum() counts the True values
get_pattern_summary(df) ==
    [c \in SummaryColumns \cap Columns(df) |->
        Cardinality({p \in 1..Length(df) : df.col[c][p]})]

\* the values of a column at the positions where the mask is True, in the
\* order of the column
RECURSIVE Masked(_, _)
Masked(values, mask) ==
    IF Len(values) = 0 THEN <<>>
    ELSE (IF Head(mask) THEN <<Head(values)>> ELSE <<>>)
         \o Masked(Tail(values), Tail(mask))

\* data[mask]: the rows where the boolean column mask is True
BoolIndex(df, mask) ==
    [index |-> Masked(df.index, mask),
     col |-> [c \in Columns(df) |-> Masked(df.col[c], mask)]]

\* variant of get_pattern_dates: without the "not in data.columns" guard,
\* so data[pattern_name] raises KeyError for a missing column
get_pattern_dates_NoGuard(df, pattern_name) ==
    IF pattern_name \notin Columns(df)
    THEN [data |-> df, ret |-> <<>>, raised |-> "KeyError", log |-> <<>>]
    ELSE [data |-> df,
          ret |-> BoolIndex(df, df.col[pattern_name]).col["Date"],
          raised |-> "none", log |-> <<>>]

\* variant of get_pattern_dates: the mask is negated
get_pattern_dates_Negated(df, pattern_name) ==
    IF pattern_name \notin Columns(df)
    THEN [data |-> df, ret |-> <<>>, raised |-> "none",
          log |-> <<"Pattern not found in data">>]
    ELSE [data |-> df,
          ret |-> BoolIndex(df, [p \in 1..Length(df) |->
                                   ~df.col[pattern_name][p]]).col["Date"],
          raised |-> "none", log |-> <<>>]

\* get_pattern_dates(data, pattern_name): the table passed as it is after
\* the call, the list returned, the exception raised and the records logged
get_pattern_dates(df, pattern_name) ==
    IF pattern_name \notin Columns(df)
    THEN [data |-> df, ret |-> <<>>, raised |-> "none",
          log |-> <<"Pattern not found in data">>]
    ELSE [data |-> df,
          ret |-> BoolIndex(df, df.col[pattern_name]).col["Date"],
          raised |-> "none", log |-> <<>>]

\* ------------------------------------------------------------------------
\* process_csv_file.  A path is the sequence of the pieces of its text, the
\* piece ".csv" being each occurrence of that substring; a file is
\* [col |-> the cells of each column]: a price cell is the number its
\* digits spell, a date cell the text of a day, a boolean cell the text
\* "True" or "False".  The file system maps the paths that exist to files.
\* ------------------------------------------------------------------------
DateTexts ==
    <<"2025-01-01", "2025-01-02", "2025-01-03", "2025-01-04", "2025-01-05">>

\* pd.to_datetime of a cell: the day, as its number in the calendar
ParseDate(text) == CHOOSE k \in 1..Len(DateTexts) : DateTexts[k] = text

\* the text to_csv writes for a day
FormatDate(day) == DateTexts[day]

\* the text to_csv writes for a boolean
FormatBool(b) == IF b THEN "True" ELSE "False"

NoPath == <<>>

\* the lower-case spelling of the column names the files use
Lower(name) ==
    CASE name \in {"date", "Date", "DATE"} -> "date"
      [] name \in {"open", "Open", "OPEN"} -> "open"
      [] name \in {"high", "High", "HIGH"} -> "high"
      [] name \in {"low", "Low", "LOW"} -> "low"
      [] name \in {"close", "Close", "CLOSE"} -> "close"
      [] OTHER -> name

\* variant of read_csv: the column names are lower-cased after reading
read_csv_LowerHeader(file) ==
    LET n == IF DOMAIN file.col = {} THEN 0
             ELSE Len(file.col[CHOOSE c \in DOMAIN file.col : TRUE])
    IN  [index |-> [p \in 1..n |-> p - 1],
         col |-> [d \in {Lower(c) : c \in DOMAIN file.col} |->
                    file.col[CHOOSE c \in DOMAIN file.col : Lower(c) = d]]]

\* pd.read_csv(path): default row labels, the columns of the file
read_csv(file) ==
    LET n == IF DOMAIN file.col = {} THEN 0
             ELSE Len(file.col[CHOOSE c \in DOMAIN file.col : TRUE])
    IN  [index |-> [p \in 1..n |-> p - 1], col |-> file.col]

\* result.to_csv(path, index=False)
to_csv(df) ==
    [col |-> [c \in Columns(df) |->
                [p \in 1..Length(df) |->
                    IF c = "Date" THEN FormatDate(df.col[c][p])
                    ELSE IF c \in PatternColumns THEN FormatBool(df.col[c][p])
                    ELSE df.col[c][p]]]]

RequiredColumns == {"date", "open", "high", "low", "close"}

\* missing_columns = [col for col in required_columns
\*                    if col not in data.columns]
MissingColumns(df) == {c \in RequiredColumns : c \notin Columns(df)}

column_mapping ==
    [date |-> "Date", open |-> "Open", high |-> "High", low |-> "Low",
     close |-> "Close"]

\* data.rename(columns=existing_columns)
Rename(df, mapping) ==
    LET renamed(c) == IF c \in DOMAIN mapping THEN mapping[c] ELSE c
        names == {renamed(c) : c \in Columns(df)}
    IN  [df EXCEPT !.col =
            [d \in names |-> df.col[CHOOSE c \in Columns(df) : renamed(c) = d]]]

\* data['date'] = pd.to_datetime(data['date'])
ConvertDate(df) ==
    [df EXCEPT !.col["date"] = [p \in 1..Length(df) |-> ParseDate(@[p])]]

\* the position of the row that comes k-th by ascending Date; rows of one
\* date keep their order
SortedPosition(df, k) ==
    LET dates == df.col["Date"]
        before(q, p) == dates[q] < dates[p] \/ (dates[q] = dates[p] /\ q < p)
    IN  CHOOSE p \in 1..Length(df) :
            Cardinality({q \in 1..Length(df) : before(q, p)}) = k - 1

\* variant of sort_values: the rows stay in the order of the file
sort_values_FileOrder(df) == df

\* data.sort_values('Date')
sort_values(df) ==
    [index |-> [k \in 1..Length(df) |-> df.index[SortedPosition(df, k)]],
     col |-> [c \in Columns(df) |->
                [k \in 1..Length(df) |-> df.col[c][SortedPosition(df, k)]]]]

\* .reset_index(drop=True)
reset_index(df) == [df EXCEPT !.index = [p \in 1..Length(df) |-> p - 1]]

\* variant of DefaultOutputPath: '.csv' is not taken out of the input path
DefaultOutputPath_KeepCsv(input_file_path) ==
    input_file_path \o <<"_with_patterns.csv">>

\* input_file_path.replace('.csv', '') followed by "_with_patterns.csv"
DefaultOutputPath(input_file_path) ==
    SelectSeq(input_file_path, LAMBDA piece : piece # ".csv")
    \o <<"_with_patterns.csv">>

\* variant of ExceptClause: the handler logs the error and returns None
ExceptClause_Swallow(out) ==
    [out EXCEPT !.log = @ \o <<"Error processing CSV file", "Error type">>,
                !.raised = "none", !.message = ""]

\* except Exception as e: two logger.error records, then "raise"
ExceptClause(out) ==
    [out EXCEPT !.log = @ \o <<"Error processing CSV file", "Error type">>]

\* process_csv_file(input_file_path, output_file_path) on the file system
\* fs: the file system after the call, the path returned, the exception
\* raised to the caller with its message, and the records logged
process_csv_file(fs, input_file_path, output_file_path) ==
    IF input_file_path \notin DOMAIN fs
    THEN ExceptClause([files |-> fs, ret |-> NoPath,
                       raised |-> "FileNotFoundError", message |-> "",
                       log |-> <<"Processing CSV file">>])
    ELSE LET read == read_csv(fs[input_file_path])
         IN  IF MissingColumns(read) # {}
             THEN ExceptClause([files |-> fs, ret |-> NoPath,
                                raised |-> "ValueError",
                                message |-> "Missing required columns",
                                log |-> <<"Processing CSV file",
                                          "Missing required columns",
                                          "Available columns">>])
             ELSE LET converted == ConvertDate(read)
                      existing_columns ==
                          [k \in DOMAIN column_mapping \cap Columns(converted)
                              |-> column_mapping[k]]
                      renamed == Rename(converted, existing_columns)
                      sorted == reset_index(sort_values(renamed))
                      out == analyze_patterns(sorted)
                      path == IF output_file_path = NoPath
                              THEN DefaultOutputPath(input_file_path)
                              ELSE output_file_path
                  IN  [files |-> (path :> to_csv(out.ret)) @@ fs,
                       ret |-> path, raised |-> "none", message |-> "",
                       log |-> <<"Processing CSV file", "Successfully read",
                                 "Starting candlestick pattern analysis">>
                               \o out.log
                               \o <<"Saving result",
                                     "Pattern analysis completed. Found patterns">>]

\* ------------------------------------------------------------------------
\* process_latest_nifty_file.  The first piece of a path is its directory
\* and the beginning of its file name.
\* ------------------------------------------------------------------------
\* the first pieces whose file name begins with NIFTY_, by directory
NiftyStems(data_directory) ==
    IF data_directory = "data" THEN {"data/NIFTY_50", "data/NIFTY_51"} ELSE {}

\* the last pieces that end in .csv
CsvEndings == {".csv", "_with_patterns.csv"}

\* glob.glob(os.path.join(data_directory, "NIFTY_*.csv"))
GlobNifty(fs, data_directory) ==
    {path \in DOMAIN fs :
        /\ Len(path) >= 2
        /\ path[1] \in NiftyStems(data_directory)
        /\ path[Len(path)] \in CsvEndings}

\* variant of LatestFiles: min for max
LatestFiles_Oldest(nifty_files, times) ==
    {path \in nifty_files : \A q \in nifty_files : times[path] <= times[q]}

\* max(nifty_files, key=os.path.getmtime): the files max can return; of
\* several files of the greatest time it returns the one glob lists
\* first, and glob lists in the order of the directory
LatestFiles(nifty_files, times) ==
    {path \in nifty_files : \A q \in nifty_files : times[q] <= times[path]}

\* process_latest_nifty_file(data_directory) on the file system fs with
\* modification times: the outcomes the call can have, each with the file
\* it chose (input)
process_latest_nifty_file(fs, times, data_directory) ==
    LET nifty_files == GlobNifty(fs, data_directory)
    IN  IF nifty_files = {}
        THEN {[files |-> fs, input |-> NoPath, ret |-> NoPath,
               raised |-> "FileNotFoundError",
               message |-> "No NIFTY CSV files found",
               log |-> <<"Looking for NIFTY CSV files",
                         "No NIFTY CSV files found">>]}
        ELSE {LET out == process_csv_file(fs, latest_file, NoPath)
              IN  [files |-> out.files, input |-> latest_file,
                   ret |-> out.ret, raised |-> out.raised,
                   message |-> out.message,
                   log |-> <<"Looking for NIFTY CSV files",
                             "Found latest NIFTY file">> \o out.log] :
              latest_file \in LatestFiles(nifty_files, times)}

\* ------------------------------------------------------------------------
\* Inputs
\* ------------------------------------------------------------------------
InputColumns == {"Date", "Open", "High", "Low", "Close"}

Candle(o, h, l, c) == [Open |-> o, High |-> h, Low |-> l, Close |-> c]

\* the table a caller builds from a sequence of candles: default row labels
\* 0..n-1 (RangeIndex), strictly increasing dates
MakeTable(candles) ==
    [index |-> [p \in 1..Len(candles) |-> p - 1],
     col |-> [Date |-> [p \in 1..Len(candles) |-> p],
              Open |-> [p \in 1..Len(candles) |-> candles[p].Open],
              High |-> [p \in 1..Len(candles) |-> candles[p].High],
              Low |-> [p \in 1..Len(candles) |-> candles[p].Low],
              Close |-> [p \in 1..Len(candles) |-> candles[p].Close]]]

NoTable == [index |-> <<>>, col |-> <<>>]

\* no query made yet
NoQuery == [op |-> "none", name |-> "", value |-> <<>>, raised |-> "none"]

\* no file exists; process_csv_file not called yet
NoFiles == <<>>

\* the time a file written now gets: later than every file that exists
Now(times) ==
    LET later(t) == \A q \in DOMAIN times : times[q] <= t
    IN  IF DOMAIN times = {} THEN 1
        ELSE 1 + times[CHOOSE q \in DOMAIN times : later(times[q])]

\* is_hammer and is_shooting_star not called yet
NoPredicate ==
    [called |-> FALSE, body_threshold |-> 0, shadow_threshold |-> 0,
     is_hammer |-> FALSE, is_shooting_star |-> FALSE]
NoOutcome ==
    [called |-> FALSE, input |-> NoPath, output |-> NoPath, ret |-> NoPath,
     raised |-> "none", message |-> ""]

Prices == 0..MaxPrice

\* coarse grid: every open and close of Prices with no shadows
TightCandles ==
    {Candle(o, Max(o, c), Min(o, c), c) : o \in Prices, c \in Prices}

\* coarse grid: one-tick bodies, falling and rising, inside the range
\* 0..WidePrice
WideCandles == {Candle(1, WidePrice, 0, 0), Candle(2, WidePrice, 0, 3)}

CoarseCandles == TightCandles \cup WideCandles

\* fine grid: every candle with prices 0..MaxTick, consistent or not
Ticks == 0..MaxTick

FineCandles == [Open : Ticks, High : Ticks, Low : Ticks, Close : Ticks]

\* a flat candle put before or after a fine-grid candle
PadCandle == Candle(0, 0, 0, 0)

\* the worked examples of the specification and of
\* tests/test_candlestick_patterns.py (the Doji example in hundredths)
DojiExample == <<Candle(10000, 15000, 5000, 10005)>>
HammerExample == <<Candle(100, 102, 90, 101)>>
HammerTestData ==
    <<Candle(100, 102, 98, 101), Candle(95, 97, 90, 96), Candle(105, 107, 103, 106)>>
EngulfingExample == <<Candle(110, 112, 100, 101), Candle(100, 115, 99, 112)>>
MorningStarExample ==
    <<Candle(110, 110, 100, 100), Candle(98, 1098, 98, 99), Candle(105, 115, 105, 115)>>
InvalidExample == <<Candle(100, 102, 98, 101), Candle(101, 100, 105, 102)>>

ExampleSeries ==
    {DojiExample, HammerExample, HammerTestData, EngulfingExample,
     MorningStarExample, InvalidExample}

\* ------------------------------------------------------------------------
\* State machine
\* ------------------------------------------------------------------------
\* CandlestickPatternAnalyzer() constructed; the caller holds the table it
\* built from series
Constructed(series) ==
    /\ data = MakeTable(series)
    /\ result = NoTable
    /\ patterns = <<>>
    /\ log = <<>>
    /\ pc = "idle"
    /\ calls = <<>>
    /\ query = NoQuery
    /\ files = NoFiles
    /\ outcome = NoOutcome
    /\ mtime = NoFiles
    /\ predicate = NoPredicate
    /\ loop_i = 0

Init ==
    \/ \E n \in 0..MaxLen : \E s \in [1..n -> CoarseCandles] : Constructed(s)
    \/ \E s \in ExampleSeries : Constructed(s)

InitCandle ==
    \/ \E k \in FineCandles :
          \E s \in {<<k>>, <<PadCandle, k>>, <<k, PadCandle>>} : Constructed(s)
    \/ \E s \in ExampleSeries : Constructed(s)

\* result = analyzer.analyze_patterns(data)
AnalyzePatterns ==
    /\ pc = "idle"
    /\ \E out \in {analyze_patterns(data)} :
          /\ data' = out.data
          /\ result' = out.ret
          /\ log' = log \o out.log
    /\ pc' = "returned"
    /\ UNCHANGED <<patterns, calls, query, files, outcome, mtime, predicate,
                 loop_i>>

Next == AnalyzePatterns

Spec == Init /\ [][Next]_vars

SpecCandle == InitCandle /\ [][Next]_vars

\* the values passed for body_threshold and for shadow_threshold when the
\* predicates are called directly: the defaults 30 and 60 among them
BodyThresholds == {0, BodyThreshold, 100}
ShadowThresholds == {0, 40, 50, 51, ShadowThreshold, 100}

\* a caller holding one record that satisfies the OHLC invariant
InitPredicate ==
    \E k \in FineCandles : RowConsistent(k) /\ Constructed(<<k>>)

\* is_hammer(open, close, high, low, body_threshold, shadow_threshold) and
\* is_shooting_star(...) on the record the caller holds
CallPredicates(body_threshold, shadow_threshold) ==
    /\ ~predicate.called
    /\ \E row \in {Iloc(data, 0)} :
          predicate' =
              [called |-> TRUE,
               body_threshold |-> body_threshold,
               shadow_threshold |-> shadow_threshold,
               is_hammer |->
                   is_hammer(row["Open"], row["Close"], row["High"], row["Low"],
                             body_threshold, shadow_threshold),
               is_shooting_star |->
                   is_shooting_star(row["Open"], row["Close"], row["High"],
                                    row["Low"], body_threshold, shadow_threshold)]
    /\ UNCHANGED <<data, result, patterns, log, pc, calls, query, files,
                   outcome, mtime, loop_i>>

NextPredicate ==
    \E body_threshold \in BodyThresholds :
    \E shadow_threshold \in ShadowThresholds :
        CallPredicates(body_threshold, shadow_threshold)

SpecPredicate == InitPredicate /\ [][NextPredicate]_vars

\* the series a caller passes when it calls one analyzer several times:
\* the empty series and the worked examples, accepted and refused
CallSeries == {<<>>} \cup ExampleSeries

InitCalls == \E s \in CallSeries : Constructed(s)

\* the caller keeps what the last call returned and takes the table of its
\* next call, on the same analyzer
NextCall(series) ==
    /\ pc = "returned"
    /\ Len(calls) + 1 < MaxCalls
    /\ calls' = Append(calls, [table |-> data, ret |-> result])
    /\ data' = MakeTable(series)
    /\ result' = NoTable
    /\ pc' = "idle"
    /\ UNCHANGED <<patterns, log, query, files, outcome, mtime, predicate,
                 loop_i>>

NextCalls ==
    \/ AnalyzePatterns
    \/ \E s \in CallSeries : NextCall(s)

SpecCalls == InitCalls /\ [][NextCalls]_vars

\* the candles of the series that are queried: a falling and a rising
\* candle, two flat ones, a falling candle engulfing the rising one, a
\* hammer, a shooting star and an inconsistent candle
QueryCandles ==
    {Candle(6, 6, 4, 4), Candle(3, 7, 3, 7), Candle(2, 2, 2, 2),
     Candle(8, 8, 8, 8), Candle(8, 8, 2, 2), Candle(9, 10, 0, 10),
     Candle(1, 10, 0, 0), Candle(5, 4, 6, 5)}

\* the names asked of get_pattern_dates: the nine pattern columns and the
\* name of tests/test_candlestick_patterns.py that is no column
QueryNames == PatternColumns \cup {"non_existent_pattern"}

InitQuery ==
    \E n \in 0..MaxLen : \E s \in [1..n -> QueryCandles] : Constructed(s)

\* summary = analyzer.get_pattern_summary(result)
GetPatternSummary ==
    /\ pc = "returned"
    /\ query' = [op |-> "get_pattern_summary", name |-> "",
                 value |-> get_pattern_summary(result), raised |-> "none"]
    /\ UNCHANGED <<data, result, patterns, log, pc, calls, files, outcome,
                 mtime, predicate, loop_i>>

\* dates = analyzer.get_pattern_dates(result, pattern_name)
GetPatternDates(pattern_name) ==
    /\ pc = "returned"
    /\ \E out \in {get_pattern_dates(result, pattern_name)} :
          /\ Len(log) + Len(out.log) <= MaxLog
          /\ result' = out.data
          /\ query' = [op |-> "get_pattern_dates", name |-> pattern_name,
                       value |-> out.ret, raised |-> out.raised]
          /\ log' = log \o out.log
    /\ UNCHANGED <<data, patterns, pc, calls, files, outcome, mtime, predicate,
                 loop_i>>

NextQuery ==
    \/ AnalyzePatterns
    \/ GetPatternSummary
    \/ \E name \in QueryNames : GetPatternDates(name)

SpecQuery == InitQuery /\ [][NextQuery]_vars

\* the candles of the files: a falling candle, a rising candle that
\* engulfs it, and an inconsistent candle
CsvCandles == {Candle(6, 6, 4, 4), Candle(3, 7, 3, 7), Candle(5, 4, 6, 5)}

\* how a file spells its columns: for each field the name of its column,
\* "" when the file has no such column
Fields == RequiredColumns \cup {"volume"}
LowerNaming == [f \in Fields |-> IF f = "volume" THEN "" ELSE f]
CapitalNaming == [f \in Fields |-> IF f = "volume" THEN "" ELSE column_mapping[f]]
UpperNaming ==
    [date |-> "DATE", open |-> "OPEN", high |-> "HIGH", low |-> "LOW",
     close |-> "CLOSE", volume |-> ""]
MixedNaming ==
    [date |-> "date", open |-> "Open", high |-> "high", low |-> "LOW",
     close |-> "close", volume |-> ""]
Namings ==
    {LowerNaming, CapitalNaming, UpperNaming, MixedNaming,
     [LowerNaming EXCEPT !["volume"] = "volume"]}
    \cup {[LowerNaming EXCEPT ![f] = ""] : f \in RequiredColumns}

\* the file with one row per candle, row p dated DateTexts[days[p]]
CsvFile(candles, days, naming) ==
    LET value(f, p) ==
            CASE f = "date" -> DateTexts[days[p]]
              [] f = "open" -> candles[p].Open
              [] f = "high" -> candles[p].High
              [] f = "low" -> candles[p].Low
              [] f = "close" -> candles[p].Close
              [] OTHER -> p
        field(name) == CHOOSE f \in Fields : naming[f] = name
    IN  [col |-> [name \in {naming[f] : f \in Fields} \ {""} |->
                    [p \in 1..Len(candles) |-> value(field(name), p)]]]

InputPath == <<"data/NIFTY_50", ".csv">>
AbsentPath == <<"data/absent", ".csv">>
CustomOutputPath == <<"out/custom_output", ".csv">>

\* an analyzer and one file, its rows dated by distinct days in any order
InitCsv ==
    \E n \in 0..MaxLen : \E s \in [1..n -> CsvCandles] :
    \E days \in {d \in [1..n -> 1..n] : \A p, q \in 1..n : d[p] = d[q] => p = q} :
    \E naming \in Namings :
        /\ data = NoTable
        /\ result = NoTable
        /\ patterns = <<>>
        /\ log = <<>>
        /\ pc = "idle"
        /\ calls = <<>>
        /\ query = NoQuery
        /\ files = (InputPath :> CsvFile(s, days, naming))
        /\ outcome = NoOutcome
        /\ mtime = (InputPath :> 1)
        /\ predicate = NoPredicate
        /\ loop_i = 0

\* output_file = analyzer.process_csv_file(input_file_path, output_file_path)
ProcessCsvFile(input_file_path, output_file_path) ==
    /\ pc = "idle"
    /\ \E out \in {process_csv_file(files, input_file_path, output_file_path)} :
          /\ files' = out.files
          /\ outcome' = [called |-> TRUE, input |-> input_file_path,
                         output |-> output_file_path, ret |-> out.ret,
                         raised |-> out.raised, message |-> out.message]
          /\ log' = log \o out.log
          /\ mtime' = IF out.raised = "none"
                       THEN (out.ret :> Now(mtime)) @@ mtime
                       ELSE mtime
    /\ pc' = "processed"
    /\ UNCHANGED <<data, result, patterns, calls, query, predicate, loop_i>>

NextCsv ==
    \E input \in {InputPath, AbsentPath} :
    \E output \in {NoPath, CustomOutputPath} : ProcessCsvFile(input, output)

SpecCsv == InitCsv /\ [][NextCsv]_vars

\* input paths that do not end in one ".csv": another extension, and
\* ".csv" twice in the file name
TextPath == <<"data/NIFTY_50", ".txt">>
BackupPath == <<"data/NIFTY_50", ".csv", ".bak", ".csv">>
InputPaths == {InputPath, TextPath, BackupPath}

\* an analyzer and one file with every required column, with or without a
\* volume column, at one of the input paths
InitPaths ==
    \E n \in 0..MaxLen : \E s \in [1..n -> CsvCandles] :
    \E naming \in {LowerNaming, [LowerNaming EXCEPT !["volume"] = "volume"]} :
    \E path \in InputPaths :
        /\ data = NoTable
        /\ result = NoTable
        /\ patterns = <<>>
        /\ log = <<>>
        /\ pc = "idle"
        /\ calls = <<>>
        /\ query = NoQuery
        /\ files = (path :> CsvFile(s, [p \in 1..n |-> p], naming))
        /\ outcome = NoOutcome
        /\ mtime = (path :> 1)
        /\ predicate = NoPredicate
        /\ loop_i = 0

NextPaths ==
    \E input \in InputPaths :
    \E output \in {NoPath, CustomOutputPath} : ProcessCsvFile(input, output)

SpecPaths == InitPaths /\ [][NextPaths]_vars

\* the candles of the series that are classified in chunks: a falling
\* candle, a flat one below it, a rising candle that engulfs the falling
\* one, and a falling candle that engulfs the rising one
ChunkCandles ==
    {Candle(6, 6, 4, 4), Candle(2, 2, 2, 2), Candle(3, 7, 3, 7),
     Candle(8, 8, 2, 2)}

\* the least length of a chunk: two records of overlap and a new one
MinChunk == 3

InitChunk ==
    \E n \in 0..(MaxLen + 1) : \E s \in [1..n -> ChunkCandles] : Constructed(s)

\* the caller keeps the classification of the whole series and takes the
\* chunk of the records at positions lo..hi-1 for its next call
TakeChunk(lo, hi) ==
    /\ pc = "returned"
    /\ calls = <<>>
    /\ lo + MinChunk <= hi
    /\ hi <= Length(data)
    /\ calls' = <<[table |-> data, ret |-> result]>>
    /\ data' = IlocSlice(data, lo, hi)
    /\ result' = NoTable
    /\ pc' = "idle"
    /\ UNCHANGED <<patterns, log, query, files, outcome, mtime, predicate,
                   loop_i>>

NextChunk ==
    \/ AnalyzePatterns
    \/ \E lo \in 0..MaxLen : \E hi \in MinChunk..(MaxLen + 1) : TakeChunk(lo, hi)

SpecChunk == InitChunk /\ [][NextChunk]_vars

\* the table without the columns cols
DropColumns(df, cols) ==
    [df EXCEPT !.col = [c \in Columns(df) \ cols |-> df.col[c]]]

\* the lower-case spelling of the columns of a table
LowerCaseMapping ==
    [Date |-> "date", Open |-> "open", High |-> "high", Low |-> "low",
     Close |-> "close"]

\* the caller holds a non-empty table that has all its columns, lacks some
\* of Open, High, Low and Close, or spells its columns in lower case
InitColumns ==
    \E n \in 1..MaxLen : \E s \in [1..n -> CsvCandles] :
        \E table \in {DropColumns(MakeTable(s), cols) : cols \in SUBSET OhlcColumns}
                      \cup {Rename(MakeTable(s), LowerCaseMapping)} :
            /\ data = table
            /\ result = NoTable
            /\ patterns = <<>>
            /\ log = <<>>
            /\ pc = "idle"
            /\ calls = <<>>
            /\ query = NoQuery
            /\ files = NoFiles
            /\ outcome = NoOutcome
            /\ mtime = NoFiles
            /\ predicate = NoPredicate
            /\ loop_i = 0

\* the workflow: analyze_patterns, then get_pattern_summary on its result
NextColumns ==
    \/ AnalyzePatterns
    \/ GetPatternSummary

SpecColumns == InitColumns /\ [][NextColumns]_vars

\* the row labels a caller gives its table: equal labels among them
RowLabels == 0..2

\* df.index = labels
SetIndex(df, labels) == [df EXCEPT !.index = labels]

\* a falling candle, a rising one that engulfs it, a falling one that
\* engulfs the rising one
IndexCandles == {Candle(6, 6, 4, 4), Candle(3, 7, 3, 7), Candle(8, 8, 2, 2)}

\* the caller holds a valid series in a table with row labels of its own
InitIndex ==
    \E n \in 1..MaxLen :
        \E s \in [1..n -> IndexCandles] : \E labels \in [1..n -> RowLabels] :
            /\ data = SetIndex(MakeTable(s), labels)
            /\ result = NoTable
            /\ patterns = <<>>
            /\ log = <<>>
            /\ pc = "idle"
            /\ calls = <<>>
            /\ query = NoQuery
            /\ files = NoFiles
            /\ outcome = NoOutcome
            /\ mtime = NoFiles
            /\ predicate = NoPredicate
            /\ loop_i = 0

SpecIndex == InitIndex /\ [][Next]_vars

\* ------------------------------------------------------------------------
\* One run of analyze_patterns, iteration by iteration.  While the run is
\* under way result holds the working copy, pc the loop that is running and
\* loop_i the position the next iteration of that loop evaluates.
\* ------------------------------------------------------------------------
InitSteps ==
    \/ \E n \in 0..MaxLen : \E s \in [1..n -> ChunkCandles] : Constructed(s)
    \/ \E s \in ExampleSeries : Constructed(s)

StepUnchanged ==
    UNCHANGED <<data, patterns, calls, query, files, outcome, mtime, predicate>>

\* analyze_patterns up to the first iteration of the single-candle loop:
\* the two early returns, the copy, the five columns set to False
EnterAnalysis ==
    /\ pc = "idle"
    /\ IF Empty(data) \/ ~validate_ohlc_data(data)
       THEN /\ result' = data
            /\ log' = log \o analyze_patterns(data).log
            /\ pc' = "returned"
            /\ loop_i' = loop_i
       ELSE /\ result' = SetColumn(SetColumn(SetColumn(SetColumn(SetColumn(data,
                            "is_doji", FALSE), "is_hammer", FALSE),
                            "is_shooting_star", FALSE), "is_bullish", FALSE),
                            "is_bearish", FALSE)
            /\ log' = log
            /\ pc' = "single"
            /\ loop_i' = 0
    /\ StepUnchanged

\* one iteration of the loop of _analyze_single_candle_patterns
SingleCandleIteration ==
    /\ pc = "single"
    /\ loop_i < Length(result)
    /\ result' = SingleCandleStep(result, loop_i)
    /\ loop_i' = loop_i + 1
    /\ UNCHANGED <<pc, log>>
    /\ StepUnchanged

\* the run returns: analyze_patterns logs and hands the table back
ReturnAnalysis(df) ==
    /\ result' = df
    /\ log' = log \o <<"Pattern analysis completed">>
    /\ pc' = "returned"
    /\ loop_i' = loop_i

\* the single-candle loop is over: _analyze_multi_candle_patterns sets its
\* four columns to False and returns for a table of fewer than 3 records
EnterMultiCandle ==
    /\ pc = "single"
    /\ loop_i >= Length(result)
    /\ \E d4 \in {SetColumn(SetColumn(SetColumn(SetColumn(result,
                      "is_bullish_engulfing", FALSE),
                      "is_bearish_engulfing", FALSE),
                      "is_morning_star", FALSE), "is_evening_star", FALSE)} :
          IF Length(d4) < 2 \/ Length(d4) < 3
          THEN ReturnAnalysis(d4)
          ELSE /\ result' = d4
               /\ pc' = "engulfing"
               /\ loop_i' = 1
               /\ log' = log
    /\ StepUnchanged

\* one iteration of "for i in range(1, len(data))"
EngulfingIteration ==
    /\ pc = "engulfing"
    /\ loop_i < Length(result)
    /\ result' = EngulfingStep(result, loop_i)
    /\ loop_i' = loop_i + 1
    /\ UNCHANGED <<pc, log>>
    /\ StepUnchanged

\* the engulfing loop is over and the star loop starts
EnterStar ==
    /\ pc = "engulfing"
    /\ loop_i >= Length(result)
    /\ pc' = "star"
    /\ loop_i' = 2
    /\ UNCHANGED <<result, log>>
    /\ StepUnchanged

\* one iteration of "for i in range(2, len(data))"
StarIteration ==
    /\ pc = "star"
    /\ loop_i < Length(result)
    /\ result' = StarStep(result, loop_i)
    /\ loop_i' = loop_i + 1
    /\ UNCHANGED <<pc, log>>
    /\ StepUnchanged

\* the star loop is over
LeaveStar ==
    /\ pc = "star"
    /\ loop_i >= Length(result)
    /\ ReturnAnalysis(result)
    /\ StepUnchanged

NextSteps ==
    \/ EnterAnalysis
    \/ SingleCandleIteration
    \/ EnterMultiCandle
    \/ EngulfingIteration
    \/ EnterStar
    \/ StarIteration
    \/ LeaveStar

SpecSteps == InitSteps /\ [][NextSteps]_vars

\* the files a data directory may hold: two NIFTY files, the output of an
\* earlier run, a NIFTY file that is no .csv, and another .csv
Nifty51Path == <<"data/NIFTY_51", ".csv">>
EarlierOutputPath == <<"data/NIFTY_50", "_with_patterns.csv">>
OtherPath == <<"data/OTHER_20250101", ".csv">>
DirectoryPaths == {InputPath, Nifty51Path, EarlierOutputPath, TextPath, OtherPath}

\* what the files hold: two records, the second one rising and engulfing
\* the first, or inconsistent in a NIFTY file; the output of an earlier
\* run holds the classified table
TwoRecords(second) ==
    CsvFile(<<Candle(6, 6, 4, 4), second>>, <<1, 2>>, LowerNaming)
EarlierOutput ==
    to_csv(analyze_patterns(MakeTable(<<Candle(6, 6, 4, 4),
                                        Candle(3, 7, 3, 7)>>)).ret)

\* an analyzer and a data directory
InitLatest ==
    \E present \in SUBSET DirectoryPaths :
    \E times \in [present -> 1..MaxTime] :
    \E second \in [present \cap {InputPath, Nifty51Path} ->
                       {Candle(3, 7, 3, 7), Candle(5, 4, 6, 5)}] :
        /\ files = [path \in present |->
                       IF path = EarlierOutputPath THEN EarlierOutput
                       ELSE IF path \in DOMAIN second
                       THEN TwoRecords(second[path])
                       ELSE TwoRecords(Candle(3, 7, 3, 7))]
        /\ data = NoTable
        /\ result = NoTable
        /\ patterns = <<>>
        /\ log = <<>>
        /\ pc = "idle"
        /\ calls = <<>>
        /\ query = NoQuery
        /\ outcome = NoOutcome
        /\ mtime = times
        /\ predicate = NoPredicate
        /\ loop_i = 0

\* output_file = analyzer.process_latest_nifty_file(data_directory)
ProcessLatestNiftyFile(data_directory) ==
    /\ pc = "idle"
    /\ \E out \in process_latest_nifty_file(files, mtime, data_directory) :
          /\ files' = out.files
          /\ outcome' = [called |-> TRUE, input |-> out.input,
                         output |-> NoPath, ret |-> out.ret,
                         raised |-> out.raised, message |-> out.message]
          /\ log' = log \o out.log
          /\ mtime' = IF out.raised = "none"
                       THEN (out.ret :> Now(mtime)) @@ mtime
                       ELSE mtime
    /\ pc' = "processed"
    /\ UNCHANGED <<data, result, patterns, calls, query, predicate, loop_i>>

NextLatest == ProcessLatestNiftyFile("data")

SpecLatest == InitLatest /\ [][NextLatest]_vars

\* ------------------------------------------------------------------------
\* Vocabulary of the properties
\* ------------------------------------------------------------------------
Returned == pc = "returned"

\* 0-based positions of a table, and the value of column c at position i
Positions(df) == 0..(Length(df) - 1)
Cell(df, i, c) == df.col[c][i + 1]

Labelled(df) == PatternColumns \subseteq Columns(df)
Unlabelled(df) == Columns(df) \cap PatternColumns = {}

\* low <= open <= high and low <= close <= high at position i
OhlcInvariant(df, i) ==
    /\ Cell(df, i, "Low") <= Cell(df, i, "Open")
    /\ Cell(df, i, "Open") <= Cell(df, i, "High")
    /\ Cell(df, i, "Low") <= Cell(df, i, "Close")
    /\ Cell(df, i, "Close") <= Cell(df, i, "High")

ValidSeries(df) == \A i \in Positions(df) : OhlcInvariant(df, i)

\* the call classified a non-empty valid series
Classified == Returned /\ Length(data) > 0 /\ ValidSeries(data)

Range(df, i) == Cell(df, i, "High") - Cell(df, i, "Low")
Body(df, i) == Abs(Cell(df, i, "Close") - Cell(df, i, "Open"))
Bullish(df, i) == Cell(df, i, "Close") > Cell(df, i, "Open")
Bearish(df, i) == Cell(df, i, "Close") < Cell(df, i, "Open")

\* range == 0 or bodyPct <= 0.1, the body measured against high - low
DojiByRange(df, i) == Range(df, i) = 0 \/ 1000 * Body(df, i) <= Range(df, i)

\* ------------------------------------------------------------------------
\* C1: a non-empty series with a record violating low <= open, close <= high
\* is returned as it was passed, with none of the nine pattern columns; and
\* an output carrying any pattern column carries all nine and every one of
\* its records satisfies the OHLC invariant.
\* ------------------------------------------------------------------------
C1_FailClosed ==
    Returned =>
        /\ (Length(data) > 0 /\ ~ValidSeries(data)) =>
              (Unlabelled(result) /\ result = data)
        /\ ~Unlabelled(result) => (Labelled(result) /\ ValidSeries(result))

C1_Witness ==
    /\ Returned
    /\ Length(data) = 2
    /\ OhlcInvariant(data, 0) /\ ~OhlcInvariant(data, 1)
    /\ Unlabelled(result) /\ result = data

\* ------------------------------------------------------------------------
\* C2: every record of a classified series is labelled is_doji if and only
\* if high - low = 0 or 100 * |close - open| / (high - low) <= 0.1.
\* ------------------------------------------------------------------------
C2_DojiByRange ==
    Classified =>
        /\ Labelled(result)
        /\ \A i \in Positions(result) :
              Cell(result, i, "is_doji") <=> DojiByRange(data, i)

\* ------------------------------------------------------------------------
\* C3: in every classified series of two or more records, record i >= 1 is
\* labelled is_bullish_engulfing if and only if record i-1 is bearish,
\* record i is bullish, open[i] < close[i-1] and close[i] > open[i-1].
\* ------------------------------------------------------------------------
BullishEngulfingPair(df, i) ==
    /\ Bearish(df, i - 1) /\ Bullish(df, i)
    /\ Cell(df, i, "Open") < Cell(df, i - 1, "Close")
    /\ Cell(df, i, "Close") > Cell(df, i - 1, "Open")

C3_BullishEngulfing ==
    (Classified /\ Length(data) >= 2) =>
        /\ Labelled(result)
        /\ \A i \in Positions(result) \ {0} :
              Cell(result, i, "is_bullish_engulfing") <=> BullishEngulfingPair(data, i)

\* ------------------------------------------------------------------------
\* C4: in every classified series of two or more records, record i >= 1 is
\* labelled is_bearish_engulfing if and only if record i-1 is bullish,
\* record i is bearish, open[i] > close[i-1] and close[i] < open[i-1].
\* ------------------------------------------------------------------------
BearishEngulfingPair(df, i) ==
    /\ Bullish(df, i - 1) /\ Bearish(df, i)
    /\ Cell(df, i, "Open") > Cell(df, i - 1, "Close")
    /\ Cell(df, i, "Close") < Cell(df, i - 1, "Open")

C4_BearishEngulfing ==
    (Classified /\ Length(data) >= 2) =>
        /\ Labelled(result)
        /\ \A i \in Positions(result) \ {0} :
              Cell(result, i, "is_bearish_engulfing") <=> BearishEngulfingPair(data, i)

\* ------------------------------------------------------------------------
\* C5: in every classified series, record i >= 2 is labelled is_morning_star
\* if and only if record i-2 is bearish, record i-1 is a Doji by its
\* high-low range, record i is bullish, open[i-1] < close[i-2] and
\* open[i] > close[i-1].
\* ------------------------------------------------------------------------
MorningStarTriple(df, i) ==
    /\ Bearish(df, i - 2) /\ DojiByRange(df, i - 1) /\ Bullish(df, i)
    /\ Cell(df, i - 1, "Open") < Cell(df, i - 2, "Close")
    /\ Cell(df, i, "Open") > Cell(df, i - 1, "Close")

C5_MorningStar ==
    Classified =>
        /\ Labelled(result)
        /\ \A i \in Positions(result) \ {0, 1} :
              Cell(result, i, "is_morning_star") <=> MorningStarTriple(data, i)

\* ------------------------------------------------------------------------
\* C6: in every classified series, record i >= 2 is labelled is_evening_star
\* if and only if record i-2 is bullish, record i-1 is a Doji by its
\* high-low range, record i is bearish, open[i-1] > close[i-2] and
\* open[i] < close[i-1].
\* ------------------------------------------------------------------------
EveningStarTriple(df, i) ==
    /\ Bullish(df, i - 2) /\ DojiByRange(df, i - 1) /\ Bearish(df, i)
    /\ Cell(df, i - 1, "Open") > Cell(df, i - 2, "Close")
    /\ Cell(df, i, "Open") < Cell(df, i - 1, "Close")

C6_EveningStar ==
    Classified =>
        /\ Labelled(result)
        /\ \A i \in Positions(result) \ {0, 1} :
              Cell(result, i, "is_evening_star") <=> EveningStarTriple(data, i)

\* ------------------------------------------------------------------------
\* C7: every record of a classified series is labelled is_hammer if and
\* only if high - low > 0, 100 * |close - open| <= 30 * (high - low) and
\* 100 * (min(open, close) - low) >= 60 * (high - low); open=100, close=101,
\* high=102, low=90 is a Hammer and no ShootingStar; open=95, high=97,
\* low=90, close=96 is a Hammer, no Doji and no ShootingStar.
\* ------------------------------------------------------------------------
HammerShape(df, i) ==
    /\ Range(df, i) > 0
    /\ 100 * Body(df, i) <= 30 * Range(df, i)
    /\ 100 * (Min(Cell(df, i, "Open"), Cell(df, i, "Close")) - Cell(df, i, "Low"))
          >= 60 * Range(df, i)

C7_Hammer ==
    Classified =>
        /\ Labelled(result)
        /\ \A i \in Positions(result) :
              Cell(result, i, "is_hammer") <=> HammerShape(data, i)
        /\ data = MakeTable(HammerExample) =>
              (Cell(result, 0, "is_hammer") /\ ~Cell(result, 0, "is_shooting_star"))
        /\ data = MakeTable(HammerTestData) =>
              /\ Cell(result, 1, "is_hammer")
              /\ ~Cell(result, 1, "is_doji")
              /\ ~Cell(result, 1, "is_shooting_star")

C7_Witness ==
    /\ Classified
    /\ \E i \in Positions(result) :
          /\ Cell(result, i, "is_hammer")
          /\ Body(data, i) > 0
          /\ 100 * (Min(Cell(data, i, "Open"), Cell(data, i, "Close"))
                    - Cell(data, i, "Low")) = 60 * Range(data, i)

\* ------------------------------------------------------------------------
\* C8: every record of a classified series is labelled is_shooting_star if
\* and only if high - low > 0, 100 * |close - open| <= 30 * (high - low) and
\* 100 * (high - max(open, close)) >= 60 * (high - low).
\* ------------------------------------------------------------------------
ShootingStarShape(df, i) ==
    /\ Range(df, i) > 0
    /\ 100 * Body(df, i) <= 30 * Range(df, i)
    /\ 100 * (Cell(df, i, "High") - Max(Cell(df, i, "Open"), Cell(df, i, "Close")))
          >= 60 * Range(df, i)

C8_ShootingStar ==
    Classified =>
        /\ Labelled(result)
        /\ \A i \in Positions(result) :
              Cell(result, i, "is_shooting_star") <=> ShootingStarShape(data, i)

C8_Witness ==
    /\ Classified
    /\ \E i \in Positions(result) :
          /\ Cell(result, i, "is_shooting_star")
          /\ Bullish(data, i)
          /\ 100 * Body(data, i) = 30 * Range(data, i)

\* ------------------------------------------------------------------------
\* C9: no record of the output of a classified series is labelled both
\* is_hammer and is_shooting_star.
\* ------------------------------------------------------------------------
C9_HammerExcludesShootingStar ==
    Classified =>
        /\ Labelled(result)
        /\ \A i \in Positions(result) :
              ~(Cell(result, i, "is_hammer") /\ Cell(result, i, "is_shooting_star"))

C9_Witness ==
    /\ Classified
    /\ Length(result) = 2
    /\ Cell(result, 1, "is_shooting_star") /\ ~Cell(result, 1, "is_hammer")
    /\ Body(data, 1) = 0

\* ------------------------------------------------------------------------
\* C10: in the output of a classified series the record at index 0 carries
\* none of is_bullish_engulfing, is_bearish_engulfing, is_morning_star,
\* is_evening_star, and the record at index 1 carries neither
\* is_morning_star nor is_evening_star.
\* ------------------------------------------------------------------------
C10_BoundaryAbsence ==
    Classified =>
        /\ Labelled(result)
        /\ \A c \in MultiCandleColumns : ~Cell(result, 0, c)
        /\ Length(result) >= 2 =>
              (~Cell(result, 1, "is_morning_star") /\ ~Cell(result, 1, "is_evening_star"))

C10_Witness ==
    /\ Classified
    /\ Length(result) >= 3
    /\ Cell(result, 1, "is_bullish_engulfing")
    /\ \A c \in MultiCandleColumns : ~Cell(result, 0, c)

C12_InputUnchanged ==
    [][(pc = "idle" /\ pc' = "returned") =>
          /\ data' = data
          /\ Labelled(result') =>
                /\ Unlabelled(data')
                /\ Columns(result') = Columns(data') \cup PatternColumns
                /\ \A c \in Columns(data') : result'.col[c] = data'.col[c]]_vars

\* calls returned for an empty, a refused and an accepted series, the
\* caller's table of the accepted one without any pattern column
C12_Witness ==
    /\ Returned
    /\ Len(calls) = 2
    /\ Length(calls[1].table) = 0
    /\ Length(calls[2].table) > 0
    /\ ~ValidSeries(calls[2].table)
    /\ Labelled(result)
    /\ Unlabelled(data)
    /\ Length(data) = 3

\* ------------------------------------------------------------------------
\* C13: analyze_patterns on a series of length zero returns (it does not
\* raise) a table of zero records, the table it was passed, and logs the
\* empty-data warning only; a non-empty series violating the OHLC invariant
\* has another outcome: its records come back, and the log holds the
\* invalid-data error and not the empty-data warning.
\* ------------------------------------------------------------------------
EmptyWarning == "Empty data provided for pattern analysis"
InvalidError == "Invalid OHLC data provided"

Logged(message) == \E k \in 1..Len(log) : log[k] = message

C13_EmptyInput ==
    /\ (Returned /\ Length(data) = 0) =>
          /\ Length(result) = 0
          /\ result = data
          /\ log = <<EmptyWarning>>
    /\ (Returned /\ Length(data) > 0 /\ ~ValidSeries(data)) =>
          /\ Length(result) > 0
          /\ Logged(InvalidError)
          /\ ~Logged(EmptyWarning)

\* the call on the empty series has returned
C13_Witness == Returned /\ Length(data) = 0 /\ Length(result) = 0

\* ------------------------------------------------------------------------
\* C14 (as the code has it): on a classified table get_pattern_summary
\* returns a mapping with an entry for exactly the seven columns is_doji,
\* is_hammer, is_shooting_star, is_bullish_engulfing, is_bearish_engulfing,
\* is_morning_star and is_evening_star (none for is_bullish or is_bearish);
\* each entry is the number of records carrying that label, a count between
\* 0 and the number of records.
\* ------------------------------------------------------------------------
Summarised == query.op = "get_pattern_summary" /\ Labelled(result)

Carrying(df, c) == {i \in Positions(df) : Cell(df, i, c)}

C14_SummaryOfSeven ==
    Summarised =>
        /\ DOMAIN query.value = SummaryColumns
        /\ \A c \in SummaryColumns :
              /\ query.value[c] = Cardinality(Carrying(result, c))
              /\ query.value[c] \in 0..Length(result)

\* a summary of a three-record table with a morning star: one record
\* carries is_morning_star, one is_doji, none is_hammer
C14_Witness ==
    /\ Summarised
    /\ Length(result) = 3
    /\ query.value["is_morning_star"] = 1
    /\ query.value["is_doji"] = 1
    /\ query.value["is_hammer"] = 0

\* C14 as stated: the summary has an entry for each of the nine labels,
\* Bullish and Bearish included
C14_SummaryOfNine ==
    Summarised =>
        /\ PatternColumns \subseteq DOMAIN query.value
        /\ \A c \in PatternColumns \cap DOMAIN query.value :
              /\ query.value[c] = Cardinality(Carrying(result, c))
              /\ query.value[c] \in 0..Length(result)

\* ------------------------------------------------------------------------
\* C15: on a classified table and for any of the nine pattern columns,
\* get_pattern_dates returns the dates of exactly the records carrying that
\* label, each once and in the order of the series, and the classified
\* table is after the query what analyze_patterns returned.
\* ------------------------------------------------------------------------
DatesAsked ==
    /\ query.op = "get_pattern_dates"
    /\ query.name \in PatternColumns
    /\ Labelled(result)

\* the positions whose record carries c, in increasing order
RECURSIVE CarryingFrom(_, _, _)
CarryingFrom(df, c, i) ==
    IF i >= Length(df) THEN <<>>
    ELSE (IF Cell(df, i, c) THEN <<i>> ELSE <<>>) \o CarryingFrom(df, c, i + 1)

C15_PatternDates ==
    DatesAsked =>
        LET at == CarryingFrom(result, query.name, 0)
        IN  /\ query.raised = "none"
            /\ Len(query.value) = Cardinality(Carrying(result, query.name))
            /\ Len(query.value) = Len(at)
            /\ \A k \in 1..Len(at) :
                  query.value[k] = Cell(result, at[k], "Date")
            /\ result = analyze_patterns(data).ret

\* the dates of is_bullish asked of a three-record table whose first and
\* last record carry it and whose middle record does not
C15_Witness ==
    /\ DatesAsked
    /\ query.name = "is_bullish"
    /\ Length(result) = 3
    /\ Carrying(result, "is_bullish") = {0, 2}
    /\ query.value = <<Cell(result, 0, "Date"), Cell(result, 2, "Date")>>

\* ------------------------------------------------------------------------
\* C16: get_pattern_dates with a pattern name that is no column of the
\* table, any name asked of the unlabelled output of a refused or empty
\* classification included, returns the empty list and raises nothing.
\* ------------------------------------------------------------------------
UnknownAsked ==
    /\ query.op = "get_pattern_dates"
    /\ query.name \notin Columns(result)

C16_UnknownPattern ==
    UnknownAsked => (query.value = <<>> /\ query.raised = "none")

\* a pattern column asked of the output of a refused classification
C16_Witness ==
    /\ UnknownAsked
    /\ query.name \in PatternColumns
    /\ Length(data) > 0
    /\ ~ValidSeries(data)
    /\ result = data
    /\ query.value = <<>>

\* ------------------------------------------------------------------------
\* Vocabulary of the properties of process_csv_file
\* ------------------------------------------------------------------------
\* process_csv_file was called on the file that exists
Processed == outcome.called /\ outcome.input = InputPath

InputFile == files[InputPath]
Rows(file) == read_csv(file).index
CanonicalColumns == {column_mapping[c] : c \in RequiredColumns}

\* every required column is there, spelled in whatever letter case
SpelledAnyCase(file) ==
    RequiredColumns \subseteq {Lower(c) : c \in DOMAIN file.col}

\* every required column is there, spelled in lower case
SpelledLowerCase(file) == RequiredColumns \subseteq DOMAIN file.col

\* the file with its required columns renamed to lower case
Lowered(file) ==
    [col |-> [d \in {Lower(c) : c \in DOMAIN file.col} |->
                file.col[CHOOSE c \in DOMAIN file.col : Lower(c) = d]]]

\* the rows of a lower-case file satisfy the OHLC invariant
ValidRows(file) ==
    \A p \in 1..Len(Rows(file)) :
        /\ file.col["low"][p] <= file.col["open"][p]
        /\ file.col["open"][p] <= file.col["high"][p]
        /\ file.col["low"][p] <= file.col["close"][p]
        /\ file.col["close"][p] <= file.col["high"][p]

ValueErrorRaised ==
    /\ outcome.raised = "ValueError"
    /\ outcome.message = "Missing required columns"
    /\ outcome.ret = NoPath

\* ------------------------------------------------------------------------
\* C17 (as the code has it): process_csv_file accepts a file only when the
\* required columns are spelled date, open, high, low, close in lower
\* case; it then writes a file with the canonical columns Date, Open, High,
\* Low, Close in their place, as many rows, and the nine pattern columns
\* when the rows are a non-empty valid series.  A file that spells any
\* required column in another letter case is refused like a file without
\* that column: ValueError is raised and no file is written.
\* ------------------------------------------------------------------------
C17_LowerCaseOnly ==
    Processed =>
        IF SpelledLowerCase(InputFile)
        THEN /\ outcome.raised = "none"
             /\ outcome.ret \in DOMAIN files
             /\ LET written == files[outcome.ret]
                     others == DOMAIN InputFile.col \ RequiredColumns
                     labels == IF Len(Rows(InputFile)) > 0 /\ ValidRows(InputFile)
                               THEN PatternColumns ELSE {}
                 IN  /\ DOMAIN written.col = CanonicalColumns \cup others \cup labels
                     /\ Len(Rows(written)) = Len(Rows(InputFile))
        ELSE /\ ValueErrorRaised
             /\ DOMAIN files = {InputPath}

\* a file with rows and the columns Date, Open, High, Low, Close was
\* processed and refused
C17_Witness ==
    /\ Processed
    /\ DOMAIN InputFile.col = CanonicalColumns
    /\ Len(Rows(InputFile)) > 0
    /\ ValueErrorRaised

\* C17 as stated: a file spelling the required columns in any letter case
\* is accepted, and what is written for it is what is written for the same
\* file spelled in lower case
C17_AnyCase ==
    (Processed /\ SpelledAnyCase(InputFile)) =>
        /\ outcome.raised = "none"
        /\ outcome.ret \in DOMAIN files
        /\ files[outcome.ret] =
              process_csv_file((InputPath :> Lowered(InputFile)),
                               outcome.input, outcome.output).files[outcome.ret]

\* ------------------------------------------------------------------------
\* C18: process_csv_file on a file lacking one of the columns date, open,
\* high, low, close raises ValueError 'Missing required columns' to the
\* caller; nothing was classified (no record of analyze_patterns is in the
\* log) and no file was written.
\* ------------------------------------------------------------------------
C18_SchemaError ==
    (Processed /\ ~SpelledAnyCase(InputFile)) =>
        /\ ValueErrorRaised
        /\ DOMAIN files = {InputPath}
        /\ ~Logged(EmptyWarning)
        /\ ~Logged(InvalidError)
        /\ ~Logged("Pattern analysis completed")
        /\ ~Logged("Saving result")

\* a file with rows and no close column was processed
C18_Witness ==
    /\ Processed
    /\ DOMAIN InputFile.col = RequiredColumns \ {"close"}
    /\ Len(Rows(InputFile)) > 0
    /\ ValueErrorRaised

\* ------------------------------------------------------------------------
\* C19: in a classified series every record carries is_bullish iff
\* close > open and is_bearish iff close < open; none carries both; a
\* record with close == open carries neither and carries is_doji.
\* ------------------------------------------------------------------------
C19_Direction ==
    Classified =>
        \A i \in Positions(result) :
            /\ Cell(result, i, "is_bullish") <=> Bullish(result, i)
            /\ Cell(result, i, "is_bearish") <=> Bearish(result, i)
            /\ ~(Cell(result, i, "is_bullish") /\ Cell(result, i, "is_bearish"))
            /\ Cell(result, i, "Close") = Cell(result, i, "Open") =>
                  /\ ~Cell(result, i, "is_bullish")
                  /\ ~Cell(result, i, "is_bearish")
                  /\ Cell(result, i, "is_doji")

\* a classified record with close == open inside a range that is not flat
C19_Witness ==
    /\ Classified
    /\ \E i \in Positions(result) :
          /\ Cell(result, i, "Close") = Cell(result, i, "Open")
          /\ Range(result, i) > 0
          /\ Cell(result, i, "is_doji")
          /\ ~Cell(result, i, "is_bullish")
          /\ ~Cell(result, i, "is_bearish")

\* ------------------------------------------------------------------------
\* C20: for every record of a classified series with high == low, the body
\* percentage and both shadow percentages are 0, computed without a
\* division by zero (no fraction with denominator 0), and the record
\* carries is_doji and neither is_hammer nor is_shooting_star.
\* ------------------------------------------------------------------------
IsZeroPct(p) == p.num = 0 /\ p.den # 0

C20_FlatCandle ==
    Classified =>
        \A i \in Positions(result) :
            Range(result, i) = 0 =>
                LET o == Cell(result, i, "Open")
                    h == Cell(result, i, "High")
                    l == Cell(result, i, "Low")
                    c == Cell(result, i, "Close")
                    shadows == calculate_shadow_percentages(h, l, o, c)
                IN  /\ IsZeroPct(calculate_body_percentage(o, c, h, l))
                    /\ IsZeroPct(shadows.upper)
                    /\ IsZeroPct(shadows.lower)
                    /\ Cell(result, i, "is_doji")
                    /\ ~Cell(result, i, "is_hammer")
                    /\ ~Cell(result, i, "is_shooting_star")

\* a classified flat record after a record that is not flat
C20_Witness ==
    /\ Classified
    /\ Length(result) = 2
    /\ Range(result, 0) > 0
    /\ Range(result, 1) = 0
    /\ Cell(result, 1, "is_doji")
    /\ ~Cell(result, 1, "is_hammer")

\* ------------------------------------------------------------------------
\* C21: for a non-empty valid series the output of analyze_patterns has as
\* many records as the input, with the same row labels in the same order
\* and the same Date, Open, High, Low and Close values, and its columns are
\* those five and the nine pattern columns, every pattern cell a boolean.
\* ------------------------------------------------------------------------
C21_OutputShape ==
    Classified =>
        /\ Length(result) = Length(data)
        /\ result.index = data.index
        /\ \A c \in InputColumns : result.col[c] = data.col[c]
        /\ Columns(result) = InputColumns \cup PatternColumns
        /\ \A c \in PatternColumns :
              /\ Len(result.col[c]) = Length(data)
              /\ \A p \in 1..Length(data) : result.col[c][p] \in BOOLEAN

\* a classified two-record series whose dates came back as passed
C21_Witness ==
    /\ Classified
    /\ Length(data) = 2
    /\ Range(data, 0) > 0
    /\ Columns(result) = InputColumns \cup PatternColumns
    /\ result.col["Date"] = <<1, 2>>

\* ------------------------------------------------------------------------
\* C22 (as the code has it): for every record satisfying the OHLC invariant
\* the body, upper-shadow and lower-shadow percentages sum to 100 (each is
\* 0 for a flat candle), so for every body_threshold and every
\* shadow_threshold above 50 is_hammer and is_shooting_star are not both
\* true.  With a shadow_threshold of 50 or less both can be true.
\* ------------------------------------------------------------------------
BothShapes == predicate.is_hammer /\ predicate.is_shooting_star

\* the three percentages of a row sum to 100, or each is 0 on a flat row
PercentagesSum(row) ==
    LET body == calculate_body_percentage(row["Open"], row["Close"],
                                          row["High"], row["Low"])
        shadows == calculate_shadow_percentages(row["High"], row["Low"],
                                                row["Open"], row["Close"])
        range == row["High"] - row["Low"]
    IN  IF range = 0
        THEN IsZeroPct(body) /\ IsZeroPct(shadows.upper) /\ IsZeroPct(shadows.lower)
        ELSE /\ body.den = range
             /\ shadows.upper.den = range
             /\ shadows.lower.den = range
             /\ body.num + shadows.upper.num + shadows.lower.num = 100 * range

C22_ExclusionAboveHalf ==
    predicate.called =>
        /\ PercentagesSum(Iloc(data, 0))
        /\ predicate.shadow_threshold > 50 => ~BothShapes

\* the predicates called with another shadow_threshold than the default,
\* above 50, on a record that is a hammer under it
C22_Witness ==
    /\ predicate.called
    /\ predicate.shadow_threshold = 51
    /\ predicate.body_threshold = 100
    /\ predicate.is_hammer
    /\ ~predicate.is_shooting_star

\* C22 as stated: whatever the thresholds, not both
C22_ExclusionAnyThreshold == predicate.called => ~BothShapes

\* ------------------------------------------------------------------------
\* C23 (as the code has it): for an input file with all required columns,
\* process_csv_file returns the caller-supplied output path when one is
\* given, otherwise the input path with every '.csv' taken out and
\* '_with_patterns.csv' put at its end; the file at the returned path
\* exists when the call returns and holds as many records as the input
\* file.  For an input path ending in its only '.csv' this is that path
\* with '.csv' replaced by '_with_patterns.csv'.
\* ------------------------------------------------------------------------
\* process_csv_file was called on the file that exists
ProcessedExisting == outcome.called /\ outcome.input \in DOMAIN files

ExpectedDefaultPath ==
    (InputPath :> <<"data/NIFTY_50", "_with_patterns.csv">>)
    @@ (TextPath :> <<"data/NIFTY_50", ".txt", "_with_patterns.csv">>)
    @@ (BackupPath :> <<"data/NIFTY_50", ".bak", "_with_patterns.csv">>)

\* the path with each '.csv' replaced by '_with_patterns.csv'
Replaced(path) ==
    [k \in 1..Len(path) |->
        IF path[k] = ".csv" THEN "_with_patterns.csv" ELSE path[k]]

WrittenAsRead ==
    /\ outcome.raised = "none"
    /\ outcome.ret \in DOMAIN files
    /\ Len(Rows(files[outcome.ret])) = Len(Rows(files[outcome.input]))

C23_OutputPath ==
    ProcessedExisting =>
        /\ WrittenAsRead
        /\ outcome.output # NoPath => outcome.ret = outcome.output
        /\ outcome.output = NoPath =>
              outcome.ret = ExpectedDefaultPath[outcome.input]

\* a file of three records at a path ending in its only '.csv', processed
\* without an output path
C23_Witness ==
    /\ ProcessedExisting
    /\ outcome.input = InputPath
    /\ outcome.output = NoPath
    /\ outcome.ret = <<"data/NIFTY_50", "_with_patterns.csv">>
    /\ outcome.ret \in DOMAIN files
    /\ Len(Rows(files[outcome.ret])) = 3

\* C23 as stated: without an output path, the path returned is the input
\* path with '.csv' replaced by '_with_patterns.csv'
C23_OutputPathReplaced ==
    ProcessedExisting =>
        /\ WrittenAsRead
        /\ outcome.output # NoPath => outcome.ret = outcome.output
        /\ outcome.output = NoPath => outcome.ret = Replaced(outcome.input)

\* ------------------------------------------------------------------------
\* C24: process_csv_file on a file that has all required columns and a
\* record violating the OHLC invariant raises nothing: it returns the
\* output path and the file written there has every record of the input,
\* no pattern column, and for a five-column input exactly the five columns
\* Date, Open, High, Low, Close.
\* ------------------------------------------------------------------------
InvalidFileProcessed ==
    /\ Processed
    /\ SpelledLowerCase(InputFile)
    /\ Len(Rows(InputFile)) > 0
    /\ ~ValidRows(InputFile)

C24_InvalidThroughCsv ==
    InvalidFileProcessed =>
        /\ outcome.raised = "none"
        /\ outcome.ret # NoPath
        /\ outcome.ret \in DOMAIN files
        /\ DOMAIN files[outcome.ret].col \cap PatternColumns = {}
        /\ DOMAIN InputFile.col = RequiredColumns =>
              DOMAIN files[outcome.ret].col = CanonicalColumns
        /\ Len(Rows(files[outcome.ret])) = Len(Rows(InputFile))
        /\ Logged(InvalidError)

\* a five-column file whose first record by date is consistent and whose
\* second is not was processed, and its output has the five columns
C24_Witness ==
    /\ InvalidFileProcessed
    /\ DOMAIN InputFile.col = RequiredColumns
    /\ outcome.ret \in DOMAIN files
    /\ DOMAIN files[outcome.ret].col = CanonicalColumns
    /\ Len(Rows(files[outcome.ret])) = 2
    /\ files[outcome.ret].col["High"] = <<6, 4>>

\* ------------------------------------------------------------------------
\* C25: when the directory holds no file named NIFTY_*.csv (whatever other
\* files it holds) process_latest_nifty_file raises FileNotFoundError
\* 'No NIFTY CSV files found', processes no file and writes none;
\* otherwise it processes one file, a NIFTY_*.csv of the directory with the
\* greatest modification time, and writes at most that file's output.
\* ------------------------------------------------------------------------
\* the paths of a data directory that are named NIFTY_*.csv
NiftyCsvPaths == {InputPath, Nifty51Path, EarlierOutputPath}

TimesProcessed(records) ==
    Cardinality({k \in 1..Len(records) : records[k] = "Processing CSV file"})

C25_LatestFile ==
    [][(pc = "idle" /\ pc' = "processed") =>
          LET named == DOMAIN files \cap NiftyCsvPaths
          IN  IF named = {}
              THEN /\ outcome'.raised = "FileNotFoundError"
                   /\ outcome'.message = "No NIFTY CSV files found"
                   /\ outcome'.input = NoPath
                   /\ TimesProcessed(log') = 0
                   /\ files' = files
              ELSE /\ outcome'.input \in named
                   /\ \A q \in named : mtime[q] <= mtime[outcome'.input]
                   /\ TimesProcessed(log') = 1
                   /\ DOMAIN files' \subseteq DOMAIN files \cup {outcome'.ret}
                   /\ \A q \in DOMAIN files \ {outcome'.ret} :
                         files'[q] = files[q]]_vars

\* the directory held two NIFTY files and a newer file of another name;
\* the newer NIFTY file was processed
C25_Witness ==
    /\ outcome.called
    /\ outcome.input = Nifty51Path
    /\ outcome.raised = "none"
    /\ {InputPath, OtherPath} \subseteq DOMAIN files
    /\ mtime[InputPath] < mtime[Nifty51Path]
    /\ mtime[Nifty51Path] < mtime[OtherPath]

\* ------------------------------------------------------------------------
\* C26: for a valid series and a contiguous chunk of it, every record at
\* chunk position 2 or more gets, when the chunk is classified on its own,
\* the nine labels it gets when the whole series is classified; and the
\* labels of the whole series are those got by classifying chunks of any
\* size of 3 or more, each starting 2 records before the end of the one
\* before, and keeping from each the records it does not share with the
\* chunk before.
\* ------------------------------------------------------------------------
\* the chunk of a chunking by size that position p is kept from, as the
\* position of its first record
ChunkStart(size, p) == IF p < 2 THEN 0 ELSE ((p - 2) \div (size - 2)) * (size - 2)

\* the labels position p gets in the chunking of df by size
ChunkedLabels(df, size, p) ==
    LET lo == ChunkStart(size, p)
        hi == Min(lo + size, Length(df))
    IN  [c \in PatternColumns |->
            Cell(analyze_patterns(IlocSlice(df, lo, hi)).ret, p - lo, c)]

Labels(df, p) == [c \in PatternColumns |-> Cell(df, p, c)]

C26_ChunkIndependence ==
    /\ (Returned /\ Len(calls) = 1) =>
          \A j \in 2..(Length(data) - 1) :
              Labels(result, j) = Labels(calls[1].ret, data.index[1] + j)
    /\ (Returned /\ calls = <<>> /\ Length(data) > 0) =>
          \A size \in MinChunk..Max(MinChunk, Length(data)) :
              \A p \in Positions(data) :
                  ChunkedLabels(data, size, p) = Labels(result, p)

\* a chunk that leaves out the first record of a series of four records
\* was classified, and its last record is a morning star in the chunk and
\* in the whole series
C26_Witness ==
    /\ Returned
    /\ Len(calls) = 1
    /\ Length(calls[1].table) = 4
    /\ Length(data) = 3
    /\ data.index[1] = 1
    /\ Cell(result, 2, "is_morning_star")
    /\ Cell(calls[1].ret, 3, "is_morning_star")

\* ------------------------------------------------------------------------
\* C27: within one run of analyze_patterns on a table whose row labels are
\* the positions (the tables the callers of the repository build), a label
\* of a record changes only in the iteration that evaluates that record: the iteration at
\* position i of a loop writes the columns of that loop at row i and at no
\* other row (a pair or triple pattern never labels i-1 or i-2), the
\* position then moves on by one, and the labels of the rows the running
\* loop has passed, like those of the loops that are over, already are the
\* labels the run returns.
\* ------------------------------------------------------------------------
Running == pc \in {"single", "engulfing", "star"}

\* the columns the iterations of a loop write
LoopColumns(loop) ==
    IF loop = "single" THEN SingleCandleColumns
    ELSE IF loop = "engulfing"
    THEN {"is_bullish_engulfing", "is_bearish_engulfing"}
    ELSE IF loop = "star" THEN {"is_morning_star", "is_evening_star"}
    ELSE {}

\* the columns of the loops that are over
DoneColumns(loop) ==
    IF loop = "engulfing" THEN SingleCandleColumns
    ELSE IF loop = "star"
    THEN SingleCandleColumns \cup LoopColumns("engulfing")
    ELSE {}

\* the labels that are settled in the working copy are those of final
SettledIn(final) ==
    /\ \A c \in DoneColumns(pc) : \A p \in Positions(result) :
          Cell(result, p, c) = Cell(final, p, c)
    /\ \A c \in LoopColumns(pc) : \A p \in 0..(loop_i - 1) :
          p \in Positions(result) => Cell(result, p, c) = Cell(final, p, c)

C27_WriteOnce ==
    [][/\ \A c \in (PatternColumns \cap Columns(result)) \cap Columns(result') :
             \A p \in Positions(result) :
                 Cell(result, p, c) # Cell(result', p, c) =>
                    /\ pc' = pc
                    /\ c \in LoopColumns(pc)
                    /\ p = loop_i
                    /\ loop_i' = loop_i + 1
       /\ (Running /\ pc' = pc) => loop_i' = loop_i + 1
       /\ Running' => \A out \in {analyze_patterns(data)} : SettledIn(out.ret)'
       /\ Returned' => result' = analyze_patterns(data).ret]_vars

\* the star loop has evaluated the third record of a series and labelled
\* it a morning star; the records before it carry no star label
C27_Witness ==
    /\ pc = "star"
    /\ loop_i = 3
    /\ Cell(result, 2, "is_morning_star")
    /\ ~Cell(result, 1, "is_morning_star")
    /\ ~Cell(result, 0, "is_morning_star")

\* ------------------------------------------------------------------------
\* C28: for a valid series the labels of the record at position i are
\* those its OHLC values at positions i-2..i give, whatever the row labels
\* of the table: the table returned carries at every position the labels
\* the same records get in a table whose row labels are the positions.
\* ------------------------------------------------------------------------
C28_PositionalLabels ==
    Classified =>
        \A out \in {analyze_patterns(reset_index(data))} :
            \A p \in Positions(data) : Labels(result, p) = Labels(out.ret, p)

\* where the row labels differ pairwise the labels are positional
PositionalUnderDistinctLabels ==
    (Classified /\ Cardinality({data.index[p] : p \in 1..Length(data)}) = Length(data)) =>
        \A out \in {analyze_patterns(reset_index(data))} :
            \A p \in Positions(data) : Labels(result, p) = Labels(out.ret, p)

\* ------------------------------------------------------------------------
\* C29: analyze_patterns on a non-empty table that lacks any of the columns
\* Open, High, Low, Close (a table with lower-case columns among them)
\* returns the table it was given, unchanged and without pattern columns,
\* and logs the error it logs for a violation of the OHLC invariant, whose
\* outcome is the same; get_pattern_summary on the result is the empty
\* mapping.
\* ------------------------------------------------------------------------
MissingError == "Missing required OHLC columns"

LacksOhlc(df) == ~(OhlcColumns \subseteq Columns(df))

Refused == Returned /\ result = data /\ Unlabelled(result) /\ Logged(InvalidError)

C29_MissingColumns ==
    /\ (Returned /\ LacksOhlc(data)) =>
          Refused /\ log = <<MissingError, InvalidError>>
    /\ (Returned /\ ~LacksOhlc(data) /\ ~ValidSeries(data)) => Refused
    /\ (Returned /\ ~LacksOhlc(data) /\ ValidSeries(data)) => Labelled(result)
    /\ (query.op = "get_pattern_summary" /\ LacksOhlc(data)) =>
          DOMAIN query.value = {}

\* a table with lower-case columns was refused and then summarised
C29_Witness ==
    /\ Refused
    /\ {"open", "high", "low", "close"} \subseteq Columns(data)
    /\ query.op = "get_pattern_summary"
    /\ DOMAIN query.value = {}

\* ------------------------------------------------------------------------
\* C30: process_csv_file classifies the records of a file in ascending
\* order of date whatever the order of its rows: for a valid file whose
\* dates differ pairwise the file written is the classification of the
\* series of its records ordered by date, which depends on the set of the
\* records only, so that two files whose rows are permutations of the same
\* records give the same output, row for row and label for label.
\* ------------------------------------------------------------------------
\* the records of a file, as a set: the order of the rows is forgotten
Records(file) ==
    {[c \in DOMAIN file.col |-> file.col[c][p]] : p \in 1..Len(Rows(file))}

\* the table of the series that orders a set of records by date, under
\* the column names of the analyzer
SeriesByDate(records) ==
    LET n == Cardinality(records)
        names == DOMAIN (CHOOSE r \in records : TRUE)
        day(r) == ParseDate(r["date"])
        at(k) == CHOOSE r \in records :
                     Cardinality({x \in records : day(x) < day(r)}) = k - 1
        canonical(c) == IF c \in DOMAIN column_mapping
                        THEN column_mapping[c] ELSE c
        spelled(d) == CHOOSE c \in names : canonical(c) = d
    IN  [index |-> [k \in 1..n |-> k - 1],
         col |-> [d \in {canonical(c) : c \in names} |->
                    [k \in 1..n |-> IF d = "Date" THEN day(at(k))
                                    ELSE at(k)[spelled(d)]]]]

ValidFileProcessed ==
    /\ Processed
    /\ SpelledLowerCase(InputFile)
    /\ Len(Rows(InputFile)) > 0
    /\ ValidRows(InputFile)

C30_OrderNormalised ==
    ValidFileProcessed =>
        /\ outcome.raised = "none"
        /\ outcome.ret \in DOMAIN files
        /\ Cardinality(Records(InputFile)) = Len(Rows(InputFile))
        /\ \A out \in {analyze_patterns(SeriesByDate(Records(InputFile)))} :
              /\ Labelled(out.ret)
              /\ files[outcome.ret] = to_csv(out.ret)

\* a file of three records whose rows are not in the order of their dates
\* was processed: the output has them by date, and the record of the
\* second day, which engulfs the record of the first day, carries
\* is_bullish_engulfing
C30_Witness ==
    /\ ValidFileProcessed
    /\ InputFile.col["date"] = <<"2025-01-03", "2025-01-01", "2025-01-02">>
    /\ outcome.ret \in DOMAIN files
    /\ files[outcome.ret].col["Date"]
          = <<"2025-01-01", "2025-01-02", "2025-01-03">>
    /\ files[outcome.ret].col["Open"][1] = InputFile.col["open"][2]
    /\ files[outcome.ret].col["is_bullish_engulfing"][2] = "True"

====
